---- MODULE Spec2Model ----
(***************************************************************************)
(* A model of x-pack/plugins/gis/public/elasticsearch_geo_utils.js.         *)
(*                                                                         *)
(* The module's functions are stateless.  The state of the model is the    *)
(* call in progress: which exported function the caller invoked, with      *)
(* which arguments, how it ended (a returned value or a thrown error), the *)
(* call stack of the recursive convertMapExtentToEnvelope, and the object  *)
(* heap that geoShapeToGeometry reads and writes.                          *)
(***************************************************************************)
EXTENDS Integers, Sequences, FiniteSets, TLC

VARIABLES
    call,     \* the exported function invoked last, with its arguments
    ret,      \* how that call ended: pending, a returned value, or a throw
    stack,    \* call stack of convertMapExtentToEnvelope (top = last element)
    retval,   \* value handed back by the invocation that returned last
    heap      \* object heap of geoShapeToGeometry: address -> object

vars == <<call, ret, stack, retval, heap>>

(***************************************************************************)
(* Bounds of the model.                                                    *)
(***************************************************************************)
\* how many full turns (360 degrees) beyond the dateline a longitude may lie
MaxTurns == 1

\* offsets from a dateline edge at which longitudes are sampled
EdgeOffsets == {-10, -1, 0, 1, 10}

\* sampled longitudes: around +-180, +-540, ... and the prime meridian
Lons ==
    {0} \cup { s * (180 + 360 * k) + d :
                 s \in {-1, 1}, k \in 0..MaxTurns, d \in EdgeOffsets }

\* latitudes given to convertMapExtentToEnvelope (it never inspects them)
EnvelopeLats == {-10, 10}

\* longest sequence of hits given to hitsToGeoJson
MaxHits == 3

\* most digits after the decimal point in a geo-point's latitude or longitude
MaxFractionDigits == 2

\* deepest call stack the model follows; the code has no such limit, and
\* C9_Terminates checks that the limit is never what stops a call
StackLimit == MaxTurns + 4

Undefined == [t |-> "undefined"]
Pending == [kind |-> "pending"]
Return(v) == [kind |-> "return", value |-> v]
Throw(msg) == [kind |-> "throw", error |-> msg]

\* the message of lines 22 and 182
UnsupportedFieldType(geoFieldType) ==
    "Unsupported field type, expected: geo_shape or geo_point, you provided: "
      \o geoFieldType

(***************************************************************************)
(* JavaScript values.  A primitive is a tagged record; an object or an     *)
(* array is its list of own properties in insertion order (an array's keys *)
(* are its indices).  A number is an integer n, or a decimal fraction      *)
(* m / 10^d with d >= 1 and m not a multiple of 10.  A string whose        *)
(* characters the code inspects (a geo-point text) is held as its sequence *)
(* of characters, any other string as an atom.  Inside the heap a property *)
(* may hold a reference instead of a nested value.                         *)
(***************************************************************************)
Null == [t |-> "null"]
NaN == [t |-> "NaN"]
Num(n) == [t |-> "number", n |-> n]
Dec(m, d) == [t |-> "number", m |-> m, d |-> d]

\* the number m / 10^d
RECURSIVE Decimal(_, _)
Decimal(m, d) ==
    IF d = 0 THEN Num(m)
    ELSE IF m % 10 = 0 THEN Decimal(m \div 10, d - 1)
    ELSE Dec(m, d)

\* -v
Negate(v) == IF "n" \in DOMAIN v THEN Num(-v.n) ELSE Dec(-v.m, v.d)
Str(s) == [t |-> "string", s |-> s]
Text(chars) == [t |-> "string", chars |-> chars]
Ref(addr) == [t |-> "ref", addr |-> addr]
Prop(k, v) == [k |-> k, v |-> v]
Obj(props) == [t |-> "object", props |-> props]

IndexKeys == <<"0", "1", "2", "3", "4", "5">>

RECURSIVE IndexedProps(_, _)
IndexedProps(elems, i) ==
    IF i > Len(elems) THEN <<>>
    ELSE <<Prop(IndexKeys[i], elems[i])>> \o IndexedProps(elems, i + 1)

Arr(elems) == [t |-> "array", props |-> IndexedProps(elems, 1)]

\* typeof value === 'string'
IsString(v) == v.t = "string"
\* Array.isArray(value)
IsArray(v) == v.t = "array"
\* value !== null && typeof value === 'object'
IsObject(v) == v.t \in {"object", "array"}

\* object.hasOwnProperty(key)
HasOwn(v, key) ==
    IsObject(v) /\ \E i \in 1..Len(v.props) : v.props[i].k = key

\* object[key] of an object or array: the own property, else undefined
Get(v, key) ==
    IF HasOwn(v, key)
    THEN v.props[CHOOSE i \in 1..Len(v.props) : v.props[i].k = key].v
    ELSE Undefined

\* object[key] = val: overwrite in place, or add as the last property
Set(v, key, val) ==
    IF HasOwn(v, key)
    THEN [v EXCEPT !.props =
            [i \in 1..Len(v.props) |->
               IF v.props[i].k = key THEN Prop(key, val) ELSE v.props[i]]]
    ELSE [v EXCEPT !.props = Append(v.props, Prop(key, val))]

(***************************************************************************)
(* String.prototype.split(',') and parseFloat on character sequences.      *)
(* parseFloat is modelled on decimal literals: leading white space, an     *)
(* optional sign, digits, an optional point and more digits, up to the     *)
(* first other character; texts with an exponent or "Infinity" are outside *)
(* the inputs of the model.                                                *)
(***************************************************************************)
Digits == <<"0", "1", "2", "3", "4", "5", "6", "7", "8", "9">>
IsDigit(c) == \E d \in 1..10 : Digits[d] = c
DigitValue(c) == (CHOOSE d \in 1..10 : Digits[d] = c) - 1

\* value.split(','): the pieces between commas
RECURSIVE SplitFrom(_, _, _)
SplitFrom(chars, i, piece) ==
    IF i > Len(chars) THEN <<piece>>
    ELSE IF chars[i] = ","
         THEN <<piece>> \o SplitFrom(chars, i + 1, <<>>)
         ELSE SplitFrom(chars, i + 1, Append(piece, chars[i]))

CommaSplit(chars) == SplitFrom(chars, 1, <<>>)

RECURSIVE SkipSpaces(_)
SkipSpaces(chars) ==
    IF chars # <<>> /\ Head(chars) = " " THEN SkipSpaces(Tail(chars)) ELSE chars

\* the longest prefix of digits
RECURSIVE DigitRun(_)
DigitRun(chars) ==
    IF chars = <<>> \/ ~IsDigit(Head(chars)) THEN <<>>
    ELSE <<Head(chars)>> \o DigitRun(Tail(chars))

\* the value of a run of digits, most significant first, after acc
RECURSIVE DigitsValue(_, _)
DigitsValue(run, acc) ==
    IF run = <<>> THEN acc
    ELSE DigitsValue(Tail(run), 10 * acc + DigitValue(Head(run)))

\* the digits after a decimal point at the head of chars, if there is one
FractionRun(chars) ==
    IF chars # <<>> /\ Head(chars) = "." THEN DigitRun(Tail(chars)) ELSE <<>>

ParseUnsigned(chars) ==
    LET whole == DigitRun(chars)
        fraction == FractionRun(SubSeq(chars, Len(whole) + 1, Len(chars)))
    IN IF whole = <<>> /\ fraction = <<>> THEN NaN
       ELSE Decimal(DigitsValue(fraction, DigitsValue(whole, 0)), Len(fraction))

ParseFloat(chars) ==
    LET body == SkipSpaces(chars) IN
      IF body = <<>> THEN NaN
      ELSE IF Head(body) = "-"
           THEN LET u == ParseUnsigned(Tail(body)) IN
                  IF u = NaN THEN NaN ELSE Negate(u)
      ELSE IF Head(body) = "+" THEN ParseUnsigned(Tail(body))
      ELSE ParseUnsigned(body)

(***************************************************************************)
(* geoPointToGeometry (lines 55-80).                                       *)
(***************************************************************************)
\* lines 76-79
PointGeometry(lon, lat) ==
    Obj(<<Prop("type", Str("Point")), Prop("coordinates", Arr(<<lon, lat>>))>>)

\* lines 65-66: the text is "lat,lon"
TextLat(pieces) == ParseFloat(pieces[1])
TextLon(pieces) == ParseFloat(pieces[2])

\* lines 69-70: the array is [lon, lat]
ArrayLatMutant(value) == Get(value, "0")
ArrayLat(value) == Get(value, "1")
ArrayLon(value) == Get(value, "0")

\* lines 72-73
RecordLat(value) == Get(value, "lat")
RecordLon(value) == Get(value, "lon")

geoPointToGeometry(value) ==
    IF IsString(value)
    THEN LET commaSplit == CommaSplit(value.chars) IN
           IF Len(commaSplit) = 1
           THEN Throw("Unable to convert to geojson, geohash not supported")
           ELSE Return(PointGeometry(TextLon(commaSplit), TextLat(commaSplit)))
    ELSE IF IsArray(value)
         THEN Return(PointGeometry(ArrayLon(value), ArrayLat(value)))
    ELSE IF IsObject(value)
         THEN Return(PointGeometry(RecordLon(value), RecordLat(value)))
    ELSE Return(PointGeometry(Undefined, Undefined))

(***************************************************************************)
(* The object heap.  heap[addr] is an object or array whose properties     *)
(* hold primitives or references.  Alloc stores a nested value as fresh    *)
(* heap objects (how a caller's record exists before the call); Deref      *)
(* reads the nested value a reference stands for.                          *)
(***************************************************************************)
RECURSIVE Alloc(_, _), AllocProps(_, _, _, _)
Alloc(h, value) ==
    IF ~IsObject(value) THEN [heap |-> h, value |-> value]
    ELSE LET addr == Len(h) + 1
             reserved == Append(h, [t |-> value.t, props |-> <<>>])
             done == AllocProps(reserved, value.props, 1, <<>>)
         IN [heap |-> [done.heap EXCEPT ![addr].props = done.props],
             value |-> Ref(addr)]
AllocProps(h, props, i, acc) ==
    IF i > Len(props) THEN [heap |-> h, props |-> acc]
    ELSE LET a == Alloc(h, props[i].v) IN
           AllocProps(a.heap, props, i + 1, Append(acc, Prop(props[i].k, a.value)))

RECURSIVE Deref(_, _)
Deref(h, value) ==
    IF value.t # "ref" THEN value
    ELSE [t |-> h[value.addr].t,
          props |-> [i \in 1..Len(h[value.addr].props) |->
                       Prop(h[value.addr].props[i].k,
                            Deref(h, h[value.addr].props[i].v))]]

\* _.cloneDeep(value): a copy that shares no object with the original
CloneDeepMutant(h, value) == [heap |-> h, value |-> value]
RECURSIVE CloneDeep(_, _), CloneProps(_, _, _, _)
CloneDeep(h, value) ==
    IF value.t # "ref" THEN [heap |-> h, value |-> value]
    ELSE LET addr == Len(h) + 1
             reserved == Append(h, [t |-> h[value.addr].t, props |-> <<>>])
             done == CloneProps(reserved, h[value.addr].props, 1, <<>>)
         IN [heap |-> [done.heap EXCEPT ![addr].props = done.props],
             value |-> Ref(addr)]
CloneProps(h, props, i, acc) ==
    IF i > Len(props) THEN [heap |-> h, props |-> acc]
    ELSE LET c == CloneDeep(h, props[i].v) IN
           CloneProps(c.heap, props, i + 1, Append(acc, Prop(props[i].k, c.value)))

\* value[key] where value is a reference or a primitive other than
\* null / undefined
HeapGet(h, value, key) ==
    IF value.t = "ref" THEN Get(h[value.addr], key) ELSE Undefined

\* value[key] = val on the object a reference points to
HeapSet(h, value, key, val) ==
    [h EXCEPT ![value.addr] = Set(@, key, val)]

(***************************************************************************)
(* geoShapeToGeometry (lines 99-138), on the heap: the result is the heap  *)
(* after the call and how the call ended.                                  *)
(***************************************************************************)
\* the switch of lines 111-130
GeoJsonTypes ==
    [point |-> "Point",
     linestring |-> "LineString",
     polygon |-> "Polygon",
     multipoint |-> "MultiPoint",
     multilinestring |-> "MultiLineString",
     geometrycollection |-> "GeometryCollection"]

\* lines 111-130: the heap after the switch on geoJson.type
ConvertType(h, geoJson) ==
    LET type == HeapGet(h, geoJson, "type") IN
      IF type.t = "string" /\ "s" \in DOMAIN type /\ type.s \in DOMAIN GeoJsonTypes
      THEN HeapSet(h, geoJson, "type", Str(GeoJsonTypes[type.s]))
      ELSE h

\* line 133
IsUnsupportedShape(type) == type = Str("envelope") \/ type = Str("circle")

geoShapeToGeometry(h, value) ==
    IF IsString(value)
    THEN [heap |-> h,
          outcome |-> Throw("Unable to convert WKT to geojson, not supported")]
    ELSE LET clone == CloneDeep(h, value)
             geoJson == clone.value
         IN IF geoJson.t \in {"null", "undefined"}
            THEN [heap |-> clone.heap, outcome |-> Throw("TypeError")]
            ELSE LET converted == ConvertType(clone.heap, geoJson)
                     type == HeapGet(converted, geoJson, "type")
                 IN IF IsUnsupportedShape(type)
                    THEN [heap |-> converted,
                          outcome |-> Throw("Unable to convert " \o type.s
                                              \o " geometry to geojson, not supported")]
                    ELSE [heap |-> converted, outcome |-> Return(geoJson)]

\* geoShapeToGeometry on a nested value: the call of line 20
ShapeGeometry(value) ==
    LET stored == Alloc(<<>>, value)
        result == geoShapeToGeometry(stored.heap, stored.value)
    IN IF result.outcome.kind = "throw" THEN result.outcome
       ELSE Return(Deref(result.heap, result.outcome.value))

(***************************************************************************)
(* hitsToGeoJson (lines 9-53).                                             *)
(***************************************************************************)
\* the path lodash reads from the text `_source[${geoFieldName}]`: the text
\* is split at dots and brackets
SourcePath(geoFieldName) ==
    CASE geoFieldName = "location" -> <<"_source", "location">>
      [] geoFieldName = "geo.point" -> <<"_source", "geo", "point">>

\* _.has(object, path): every key of the path is an own property of the
\* object reached so far
RECURSIVE Has(_, _)
Has(object, path) ==
    IF path = <<>> THEN TRUE
    ELSE HasOwn(object, Head(path)) /\ Has(Get(object, Head(path)), Tail(path))

\* _.get(object, path): follow the path while the value is an object
RECURSIVE GetPath(_, _)
GetPath(object, path) ==
    IF path = <<>> THEN object
    ELSE IF object.t \in {"null", "undefined"} THEN Undefined
    ELSE GetPath(Get(object, Head(path)), Tail(path))

\* lines 11-13
FilterHitsMutant(hits, geoFieldName) == hits
RECURSIVE FilterHits(_, _)
FilterHits(hits, geoFieldName) ==
    IF hits = <<>> THEN <<>>
    ELSE (IF Has(Head(hits), SourcePath(geoFieldName)) THEN <<Head(hits)>> ELSE <<>>)
           \o FilterHits(Tail(hits), geoFieldName)

\* lines 17-23
Geometry(value, geoFieldType) ==
    IF geoFieldType = "geo_point" THEN geoPointToGeometry(value)
    ELSE IF geoFieldType = "geo_shape" THEN ShapeGeometry(value)
    ELSE Throw(UnsupportedFieldType(geoFieldType))

\* lines 26-32: copy the own properties of hit._source but the geo field
RECURSIVE SourceProperties(_, _, _, _)
SourceProperties(properties, source, i, geoFieldName) ==
    IF ~IsObject(source) \/ i > Len(source.props) THEN properties
    ELSE SourceProperties(
           IF source.props[i].k # geoFieldName
           THEN Set(properties, source.props[i].k, source.props[i].v)
           ELSE properties,
           source, i + 1, geoFieldName)

\* line 38
UnwrapMutant(val) ==
    IF IsArray(val) /\ Len(val.props) >= 1 THEN val.props[1].v ELSE val
Unwrap(val) ==
    IF IsArray(val) /\ Len(val.props) = 1 THEN val.props[1].v ELSE val

\* lines 35-40: add the computed fields of hit.fields
RECURSIVE FieldsProperties(_, _, _)
FieldsProperties(properties, fields, i) ==
    IF ~IsObject(fields) \/ i > Len(fields.props) THEN properties
    ELSE FieldsProperties(
           Set(properties, fields.props[i].k, Unwrap(fields.props[i].v)),
           fields, i + 1)

\* lines 25-40
Properties(hit, geoFieldName) ==
    FieldsProperties(
      SourceProperties(Obj(<<>>), Get(hit, "_source"), 1, geoFieldName),
      Get(hit, "fields"), 1)

\* lines 14-47: the callback of map, for one hit
Feature(hit, geoFieldName, geoFieldType) ==
    LET value == GetPath(hit, SourcePath(geoFieldName))
        geometry == Geometry(value, geoFieldType)
    IN IF geometry.kind = "throw" THEN geometry
       ELSE Return(Obj(<<Prop("type", Str("Feature")),
                         Prop("geometry", geometry.value),
                         Prop("properties", Properties(hit, geoFieldName))>>))

hitsToGeoJson(hits, geoFieldName, geoFieldType) ==
    LET kept == FilterHits(hits, geoFieldName)
        mapped == [i \in 1..Len(kept) |-> Feature(kept[i], geoFieldName, geoFieldType)]
        thrown == {i \in 1..Len(kept) : mapped[i].kind = "throw"}
    IN IF thrown # {}
       THEN mapped[CHOOSE i \in thrown : \A j \in thrown : i <= j]
       ELSE Return(Obj(<<Prop("type", Str("FeatureCollection")),
                         Prop("features",
                              Arr([i \in 1..Len(kept) |-> mapped[i].value]))>>))

(***************************************************************************)
(* createExtentFilter (lines 140-184).                                     *)
(***************************************************************************)
\* lines 144-149
NoWrapMapExtent(mapExtent) ==
    [minLon |-> IF mapExtent.minLon < -180 THEN -180 ELSE mapExtent.minLon,
     minLat |-> IF mapExtent.minLat < -90 THEN -90 ELSE mapExtent.minLat,
     maxLon |-> IF mapExtent.maxLon > 180 THEN 180 ELSE mapExtent.maxLon,
     maxLat |-> IF mapExtent.maxLat > 90 THEN 90 ELSE mapExtent.maxLat]

createExtentFilter(mapExtent, geoFieldName, geoFieldType) ==
    LET noWrapMapExtent == NoWrapMapExtent(mapExtent) IN
      IF geoFieldType = "geo_point"
      THEN Return([t |-> "geo_bounding_box",
                   field |-> geoFieldName,
                   top_left |-> [lat |-> noWrapMapExtent.maxLat,
                                 lon |-> noWrapMapExtent.minLon],
                   bottom_right |-> [lat |-> noWrapMapExtent.minLat,
                                     lon |-> noWrapMapExtent.maxLon]])
      ELSE IF geoFieldType = "geo_shape"
      THEN Return([t |-> "geo_shape",
                   field |-> geoFieldName,
                   shape |-> [type |-> "envelope",
                              coordinates |->
                                << <<noWrapMapExtent.minLon, noWrapMapExtent.maxLat>>,
                                   <<noWrapMapExtent.maxLon, noWrapMapExtent.minLat>> >>],
                   relation |-> "INTERSECTS"])
      ELSE Throw(UnsupportedFieldType(geoFieldType))

(***************************************************************************)
(* convertMapExtentToEnvelope (lines 190-244).                             *)
(*                                                                         *)
(* One invocation is a stack frame [ext, pc, first].  pc is "entry" before *)
(* the body has run, "tail" while the frame waits for the call of line     *)
(* 192, "first" / "second" while it waits for the first / second element   *)
(* of the array literal of lines 203-216 or 222-235.                       *)
(***************************************************************************)
Extent(maxLat, maxLon, minLat, minLon) ==
    [maxLat |-> maxLat, maxLon |-> maxLon, minLat |-> minLat, minLon |-> minLon]

Extents ==
    { Extent(maxLat, maxLon, minLat, minLon) :
        maxLat \in EnvelopeLats, maxLon \in Lons,
        minLat \in EnvelopeLats, minLon \in Lons }

\* the object literal of lines 238-243
Envelope(ext) ==
    [t |-> "envelope",
     coordinates |-> << <<ext.minLon, ext.maxLat>>, <<ext.maxLon, ext.minLat>> >>]

\* a two-element array literal (lines 203, 222)
Pair(a, b) == [t |-> "array", elems |-> <<a, b>>]

Abs(n) == IF n < 0 THEN -n ELSE n

\* line 191
WrapsBothEdgesMutant(ext) == ext.maxLon > 180 \/ ext.minLon < -180
WrapsBothEdges(ext) == ext.maxLon > 180 /\ ext.minLon < -180

\* line 200
CrossesEast(ext) == ext.maxLon > 180

\* line 219
CrossesWest(ext) == ext.minLon < -180

\* line 202
OverlapWestOfDateLineMutant(ext) == ext.maxLon - 360
OverlapWestOfDateLine(ext) == ext.maxLon - 180

\* line 221
OverlapEastOfDateLineMutant(ext) == ext.minLon - 180
OverlapEastOfDateLine(ext) == Abs(ext.minLon) - 180

\* lines 192-197: the clamped extent of the tail call
ClampedExtentMutant(ext) == ext
ClampedExtent(ext) == Extent(ext.maxLat, 180, ext.minLat, -180)

\* lines 204-209 and 210-215: the two halves of an eastward crossing
EastFirstHalf(ext) == Extent(ext.maxLat, 180, ext.minLat, ext.minLon)
EastSecondHalf(ext) ==
    Extent(ext.maxLat, -180 + OverlapWestOfDateLine(ext), ext.minLat, -180)

\* lines 223-228 and 229-234: the two halves of a westward crossing
WestFirstHalf(ext) ==
    Extent(ext.maxLat, 180, ext.minLat, 180 - OverlapEastOfDateLine(ext))
WestSecondHalf(ext) == Extent(ext.maxLat, ext.maxLon, ext.minLat, -180)

\* which return statement the body of an invocation reaches
Rule(ext) ==
    IF WrapsBothEdges(ext) THEN "both"
    ELSE IF CrossesEast(ext) THEN "east"
    ELSE IF CrossesWest(ext) THEN "west"
    ELSE "base"

(***************************************************************************)
(* The inputs the callers of the model pass.                               *)
(***************************************************************************)
\* String(n) of a number, as characters
RECURSIVE UnsignedChars(_)
UnsignedChars(n) ==
    IF n < 10 THEN <<Digits[n + 1]>>
    ELSE UnsignedChars(n \div 10) \o <<Digits[(n % 10) + 1]>>

RECURSIVE Power10(_)
Power10(d) == IF d = 0 THEN 1 ELSE 10 * Power10(d - 1)

\* exactly d digits of n, with leading zeros
RECURSIVE PaddedChars(_, _)
PaddedChars(n, d) ==
    IF d = 0 THEN <<>>
    ELSE PaddedChars(n \div 10, d - 1) \o <<Digits[(n % 10) + 1]>>

NumberChars(v) ==
    IF "n" \in DOMAIN v
    THEN (IF v.n < 0 THEN <<"-">> ELSE <<>>) \o UnsignedChars(Abs(v.n))
    ELSE (IF v.m < 0 THEN <<"-">> ELSE <<>>)
           \o UnsignedChars(Abs(v.m) \div Power10(v.d))
           \o <<".">>
           \o PaddedChars(Abs(v.m) % Power10(v.d), v.d)

\* the three encodings of a geo-point (lat, lon)
PointText(lat, lon) == Text(NumberChars(lat) \o <<",">> \o NumberChars(lon))
PointTextSpaced(lat, lon) ==
    Text(NumberChars(lat) \o <<",", " ">> \o NumberChars(lon))
PointPair(lat, lon) == Arr(<<lon, lat>>)
PointRecord(lat, lon) == Obj(<<Prop("lat", lat), Prop("lon", lon)>>)

\* latitudes and longitudes: -180, -18, -1.8, -71.34, 0.05, 4.12, 105, ...
PointCoords ==
    { Decimal(m, d) : m \in {-7134, -180, 0, 5, 412, 105},
                      d \in 0..MaxFractionDigits }

North == Num(7)
West == Num(-5)

Geohash == Text(<<"u", "4", "p", "r", "u", "y", "d">>)

PointValues ==
    { PointText(lat, lon) : lat \in PointCoords, lon \in PointCoords }
      \cup { PointTextSpaced(lat, lon) : lat \in PointCoords, lon \in PointCoords }
      \cup { PointPair(lat, lon) : lat \in PointCoords, lon \in PointCoords }
      \cup { PointRecord(lat, lon) : lat \in PointCoords, lon \in PointCoords }
      \cup { Geohash, Text(<<>>), Text(<<"7", ",">>), Text(<<"x", ",", "-">>),
             Null, Undefined, Num(7), Arr(<<>>), Arr(<<Num(7)>>), Obj(<<>>),
             Obj(<<Prop("lat", Num(7))>>) }

ShapeTags ==
    { "point", "linestring", "polygon", "multipoint", "multilinestring",
      "geometrycollection", "envelope", "circle",
      "Point", "Polygon", "Envelope", "blob" }

ShapePayloads ==
    { Arr(<<Num(-5), Num(7)>>),
      Arr(<<Arr(<<Num(0), Num(0)>>), Arr(<<Num(-5), Num(7)>>)>>),
      Arr(<<Obj(<<Prop("type", Str("point")),
                  Prop("coordinates", Arr(<<Num(-5), Num(7)>>))>>)>>) }

ShapeValues ==
    { Obj(<<Prop("type", Str(tag)), Prop("coordinates", payload)>>) :
        tag \in ShapeTags, payload \in ShapePayloads }
      \cup { Obj(<<Prop("coordinates", payload), Prop("type", Str(tag))>>) :
               tag \in ShapeTags, payload \in ShapePayloads }
      \cup { Obj(<<Prop("coordinates", payload)>>) : payload \in ShapePayloads }
      \cup { Obj(<<Prop("type", Num(7))>>), Obj(<<>>), Arr(<<Num(-5), Num(7)>>),
             Str("POINT (-5 7)"), PointText(North, West), Geohash, Null, Undefined, Num(7) }

FieldNames == {"location", "geo.point"}
FieldTypes == {"geo_point", "geo_shape", "keyword"}

Polygon ==
    Obj(<<Prop("type", Str("polygon")),
          Prop("coordinates",
               Arr(<<Arr(<<Num(0), Num(0)>>), Arr(<<Num(-5), Num(7)>>)>>))>>)

HitSamples ==
    { \* a "lat,lon" text, one computed field
      Obj(<<Prop("_source", Obj(<<Prop("location", PointText(North, West)),
                                  Prop("name", Str("a"))>>)),
            Prop("fields", Obj(<<Prop("count", Arr(<<Num(3)>>))>>))>>),
      \* no geo field, no computed fields
      Obj(<<Prop("_source", Obj(<<Prop("name", Str("b"))>>))>>),
      \* a [lon, lat] pair; computed fields that shadow a source field, that
      \* carry the geo field's name, with no, one and two elements, and a scalar
      Obj(<<Prop("_source", Obj(<<Prop("name", Str("c")),
                                  Prop("location", PointPair(North, West))>>)),
            Prop("fields", Obj(<<Prop("name", Arr(<<Str("z")>>)),
                                 Prop("location", Arr(<<PointText(North, West)>>)),
                                 Prop("tags", Arr(<<Str("x"), Str("y")>>)),
                                 Prop("none", Arr(<<>>)),
                                 Prop("score", Num(1))>>))>>),
      \* a shape, beside a property whose name has a dot in it
      Obj(<<Prop("_source", Obj(<<Prop("location", Polygon),
                                  Prop("geo.point", Str("flat"))>>)),
            Prop("fields", Obj(<<>>))>>),
      \* the geo field nested under an object
      Obj(<<Prop("_source", Obj(<<Prop("geo", Obj(<<Prop("point",
                                                          PointRecord(North, West))>>)),
                                  Prop("name", Str("d"))>>)),
            Prop("fields", Obj(<<Prop("geo.point", Arr(<<Num(2)>>))>>))>>),
      \* an envelope shape
      Obj(<<Prop("_source",
                 Obj(<<Prop("location",
                            Obj(<<Prop("type", Str("envelope")),
                                  Prop("coordinates",
                                       Arr(<<Arr(<<Num(-5), Num(7)>>),
                                             Arr(<<Num(7), Num(-5)>>)>>))>>))>>))>>),
      \* a geohash text
      Obj(<<Prop("_source", Obj(<<Prop("location", Geohash),
                                  Prop("name", Str("e"))>>))>>),
      \* no _source at all
      Obj(<<Prop("fields", Obj(<<Prop("count", Arr(<<Num(4)>>))>>))>>) }

RECURSIVE SeqsUpTo(_, _)
SeqsUpTo(S, n) ==
    IF n = 0 THEN {<<>>}
    ELSE SeqsUpTo(S, n - 1)
           \cup { Append(q, x) : q \in {r \in SeqsUpTo(S, n - 1) : Len(r) = n - 1},
                                 x \in S }

HitSequences == SeqsUpTo(HitSamples, MaxHits)

\* longitudes and latitudes of the map extents given to createExtentFilter
FilterLons == {lon \in Lons : Abs(lon) <= 190}
FilterLats == {-100, -90, 90, 100}

MapExtents ==
    { Extent(maxLat, maxLon, minLat, minLon) :
        maxLat \in FilterLats, maxLon \in FilterLons,
        minLat \in FilterLats, minLon \in FilterLons }

Frame(ext) == [ext |-> ext, pc |-> "entry", first |-> Undefined]

Top == stack[Len(stack)]
Pop == SubSeq(stack, 1, Len(stack) - 1)
SetTop(frame) == [stack EXCEPT ![Len(stack)] = frame]

\* no function has been invoked yet
Idle == call.fn = "none"

\* an invocation is running and may call itself
CanRecurse == stack # <<>> /\ Len(stack) < StackLimit

Init ==
    /\ call = [fn |-> "none"]
    /\ ret = [kind |-> "none"]
    /\ stack = <<>>
    /\ retval = Undefined
    /\ heap = <<>>

\* a caller invokes convertMapExtentToEnvelope(ext)
ConvertCall ==
    /\ Idle
    /\ \E ext \in Extents :
         /\ call' = [fn |-> "convertMapExtentToEnvelope", ext |-> ext]
         /\ stack' = <<Frame(ext)>>
    /\ ret' = Pending
    /\ retval' = Undefined
    /\ heap' = <<>>

\* line 191-197: both edges exceeded, recurse on the clamped extent
ConvertBoth ==
    /\ CanRecurse /\ Top.pc = "entry" /\ Rule(Top.ext) = "both"
    /\ stack' = Append(SetTop([Top EXCEPT !.pc = "tail"]),
                       Frame(ClampedExtent(Top.ext)))
    /\ UNCHANGED <<call, ret, retval, heap>>

\* lines 200-209: eastward crossing, evaluate the first array element
ConvertEast ==
    /\ CanRecurse /\ Top.pc = "entry" /\ Rule(Top.ext) = "east"
    /\ stack' = Append(SetTop([Top EXCEPT !.pc = "first"]),
                       Frame(EastFirstHalf(Top.ext)))
    /\ UNCHANGED <<call, ret, retval, heap>>

\* lines 219-228: westward crossing, evaluate the first array element
ConvertWest ==
    /\ CanRecurse /\ Top.pc = "entry" /\ Rule(Top.ext) = "west"
    /\ stack' = Append(SetTop([Top EXCEPT !.pc = "first"]),
                       Frame(WestFirstHalf(Top.ext)))
    /\ UNCHANGED <<call, ret, retval, heap>>

\* the stack after the top frame returns value v, and the caller's result
ReturnFromFrame(v) ==
    /\ stack' = Pop
    /\ retval' = v
    /\ ret' = IF Len(stack) = 1 THEN Return(v) ELSE ret
    /\ UNCHANGED <<call, heap>>

\* lines 238-243: the base case returns one envelope
ConvertBase ==
    /\ stack # <<>> /\ Top.pc = "entry" /\ Rule(Top.ext) = "base"
    /\ ReturnFromFrame(Envelope(Top.ext))

\* line 192: the tail call returned, return its value
ConvertTailReturn ==
    /\ stack # <<>> /\ Top.pc = "tail"
    /\ ReturnFromFrame(retval)

\* lines 210-215 and 229-234: the first element is evaluated, evaluate the
\* second
ConvertSecond ==
    /\ CanRecurse /\ Top.pc = "first"
    /\ stack' = Append(SetTop([Top EXCEPT !.pc = "second", !.first = retval]),
                       Frame(IF Rule(Top.ext) = "east"
                             THEN EastSecondHalf(Top.ext)
                             ELSE WestSecondHalf(Top.ext)))
    /\ UNCHANGED <<call, ret, retval, heap>>

\* lines 203-216 and 222-235: both elements are evaluated, return the array
ConvertPairReturn ==
    /\ stack # <<>> /\ Top.pc = "second"
    /\ ReturnFromFrame(Pair(Top.first, retval))

\* a caller invokes geoPointToGeometry(value)
PointCall ==
    /\ Idle
    /\ \E value \in PointValues :
         /\ call' = [fn |-> "geoPointToGeometry", value |-> value]
         /\ ret' = geoPointToGeometry(value)
    /\ UNCHANGED <<stack, retval, heap>>

\* a caller invokes geoShapeToGeometry(value) on a value it holds in the heap
ShapeCall ==
    /\ Idle
    /\ \E value \in ShapeValues :
         LET stored == Alloc(<<>>, value)
             result == geoShapeToGeometry(stored.heap, stored.value)
         IN /\ call' = [fn |-> "geoShapeToGeometry",
                        value |-> stored.value, heap |-> stored.heap]
            /\ heap' = result.heap
            /\ ret' = result.outcome
    /\ UNCHANGED <<stack, retval>>

\* a caller invokes hitsToGeoJson(hits, geoFieldName, geoFieldType)
HitsCall ==
    /\ Idle
    /\ \E hits \in HitSequences, geoFieldName \in FieldNames,
          geoFieldType \in FieldTypes :
         /\ call' = [fn |-> "hitsToGeoJson", hits |-> hits,
                     geoFieldName |-> geoFieldName, geoFieldType |-> geoFieldType]
         /\ ret' = hitsToGeoJson(hits, geoFieldName, geoFieldType)
    /\ UNCHANGED <<stack, retval, heap>>

\* a caller invokes createExtentFilter(mapExtent, geoFieldName, geoFieldType)
FilterCall ==
    /\ Idle
    /\ \E mapExtent \in MapExtents, geoFieldName \in FieldNames,
          geoFieldType \in FieldTypes :
         /\ call' = [fn |-> "createExtentFilter", mapExtent |-> mapExtent,
                     geoFieldName |-> geoFieldName, geoFieldType |-> geoFieldType]
         /\ ret' = createExtentFilter(mapExtent, geoFieldName, geoFieldType)
    /\ UNCHANGED <<stack, retval, heap>>

Next ==
    \/ PointCall
    \/ ShapeCall
    \/ HitsCall
    \/ FilterCall
    \/ ConvertCall
    \/ ConvertBoth
    \/ ConvertEast
    \/ ConvertWest
    \/ ConvertBase
    \/ ConvertTailReturn
    \/ ConvertSecond
    \/ ConvertPairReturn

Spec == Init /\ [][Next]_vars

(***************************************************************************)
(* Fairness: a JavaScript call runs to completion, so a step of a running  *)
(* invocation that is possible is eventually taken.  Nothing obliges the   *)
(* caller to make a call.                                                  *)
(***************************************************************************)
ConvertStep ==
    \/ ConvertBoth
    \/ ConvertEast
    \/ ConvertWest
    \/ ConvertBase
    \/ ConvertTailReturn
    \/ ConvertSecond
    \/ ConvertPairReturn

FairSpec == Spec /\ WF_vars(ConvertStep)

(***************************************************************************)
(* Vocabulary of the properties.                                           *)
(***************************************************************************)
Returned(fn) == call.fn = fn /\ ret.kind = "return"

ConvertReturned == Returned("convertMapExtentToEnvelope")

\* an envelope record written out corner by corner
EnvelopeOf(left, top, right, bottom) ==
    [t |-> "envelope", coordinates |-> << <<left, top>>, <<right, bottom>> >>]

\* the envelope records of a result, left to right, at any nesting depth
RECURSIVE Flatten(_)
Flatten(v) ==
    IF v.t = "envelope" THEN <<v>>
    ELSE Flatten(v.elems[1]) \o Flatten(v.elems[2])

InLonRange(lon) == -180 <= lon /\ lon <= 180

EnvelopeInLonRange(env) ==
    InLonRange(env.coordinates[1][1]) /\ InLonRange(env.coordinates[2][1])

AllEnvelopesInLonRange(v) ==
    \A i \in 1..Len(Flatten(v)) : EnvelopeInLonRange(Flatten(v)[i])

(***************************************************************************)
(* C1: an extent that crosses exactly one dateline edge by less than a     *)
(* full turn comes back as exactly two un-nested envelopes, the overflow   *)
(* remapped into the opposite hemisphere: for -180 <= minLon <= 180 <      *)
(* maxLon <= 540 the result is [[minLon..180], [-180..maxLon-360]], for    *)
(* -540 <= minLon < -180 <= maxLon <= 180 it is [[minLon+360..180],        *)
(* [-180..maxLon]].                                                        *)
(***************************************************************************)
C1_SingleCrossingSplitsInTwo ==
    ConvertReturned =>
      LET e == call.ext IN
        /\ (-180 <= e.minLon /\ e.minLon <= 180 /\ 180 < e.maxLon /\ e.maxLon <= 540)
             => ret.value =
                  [t |-> "array",
                   elems |-> << EnvelopeOf(e.minLon, e.maxLat, 180, e.minLat),
                                EnvelopeOf(-180, e.maxLat, e.maxLon - 360, e.minLat) >>]
        /\ (-540 <= e.minLon /\ e.minLon < -180 /\ -180 <= e.maxLon /\ e.maxLon <= 180)
             => ret.value =
                  [t |-> "array",
                   elems |-> << EnvelopeOf(e.minLon + 360, e.maxLat, 180, e.minLat),
                                EnvelopeOf(-180, e.maxLat, e.maxLon, e.minLat) >>]

\* a westward crossing by ten degrees came back as two envelopes
C1_Witness ==
    /\ ConvertReturned
    /\ call.ext.minLon = -190 /\ call.ext.maxLon = 170
    /\ ret.value.t = "array"
    /\ ret.value.elems[1].coordinates[1][1] = 170

(***************************************************************************)
(* C2 as stated: for every input extent, every envelope in the result has  *)
(* both longitudes within [-180, 180].                                     *)
(***************************************************************************)
C2_AsStated ==
    ConvertReturned => AllEnvelopesInLonRange(ret.value)

(***************************************************************************)
(* C2 amended: for every extent with minLon <= 180 and maxLon >= -180,     *)
(* every envelope in the result, at any nesting depth, has both longitudes *)
(* within [-180, 180]; for every other extent some envelope has not.       *)
(***************************************************************************)
C2_EnvelopesInLonRange ==
    ConvertReturned =>
      (AllEnvelopesInLonRange(ret.value)
         <=> (call.ext.minLon <= 180 /\ call.ext.maxLon >= -180))

\* an extent more than a turn past the east edge came back nested, in range
C2_Witness ==
    /\ ConvertReturned
    /\ call.ext.minLon <= 180 /\ call.ext.maxLon > 540
    /\ Len(Flatten(ret.value)) = 3
    /\ AllEnvelopesInLonRange(ret.value)

(***************************************************************************)
(* C3 as stated: for every input extent the flattened result holds one     *)
(* envelope when neither longitude bound is outside [-180,180] or both     *)
(* are, and two when exactly one bound is outside.                         *)
(***************************************************************************)
BoundsOutside(ext) ==
    (IF InLonRange(ext.minLon) THEN 0 ELSE 1)
      + (IF InLonRange(ext.maxLon) THEN 0 ELSE 1)

EdgesCrossed(ext) ==
    (IF ext.maxLon > 180 THEN 1 ELSE 0) + (IF ext.minLon < -180 THEN 1 ELSE 0)

DistanceFromRange(lon) ==
    IF lon > 180 THEN lon - 180 ELSE IF lon < -180 THEN -180 - lon ELSE 0

\* this step is a recursive call: it pushes a frame on a running invocation
IsRecursiveCall == stack # <<>> /\ Len(stack') = Len(stack) + 1

Caller == stack[Len(stack)].ext
Callee == stack'[Len(stack')].ext

Terminates ==
    (call.fn = "convertMapExtentToEnvelope" /\ ret.kind = "pending")
      ~> (ConvertReturned /\ stack = <<>>)

CalleeCloserToRange ==
    \/ InLonRange(Callee.minLon) /\ InLonRange(Callee.maxLon)
    \/ /\ ~InLonRange(Callee.minLon)
       /\ \/ DistanceFromRange(Callee.minLon) < DistanceFromRange(Caller.minLon)
          \/ DistanceFromRange(Callee.minLon) < DistanceFromRange(Caller.maxLon)
    \/ /\ ~InLonRange(Callee.maxLon)
       /\ \/ DistanceFromRange(Callee.maxLon) < DistanceFromRange(Caller.minLon)
          \/ DistanceFromRange(Callee.maxLon) < DistanceFromRange(Caller.maxLon)

C9_AsStated ==
    Terminates /\ [][IsRecursiveCall => CalleeCloserToRange]_vars

(***************************************************************************)
(* C9 amended: the recursion terminates for every extent: every chain of   *)
(* recursive calls reaches the base case within the stack limit, because   *)
(* each recursive call's excess over the edges the rules test,             *)
(* max(0, maxLon - 180) + max(0, -180 - minLon), is strictly smaller than  *)
(* its caller's (a call may still carry a bound that no rule tests,        *)
(* minLon > 180 or maxLon < -180, unchanged from its caller).              *)
(***************************************************************************)
Excess(ext) ==
    (IF ext.maxLon > 180 THEN ext.maxLon - 180 ELSE 0)
      + (IF ext.minLon < -180 THEN -180 - ext.minLon ELSE 0)

C9_Terminates ==
    /\ Terminates
    /\ [][IsRecursiveCall => Excess(Callee) < Excess(Caller)]_vars
    /\ [](Len(stack) < StackLimit)

\* a call whose second half had to be split again has returned
C9_Witness ==
    /\ ConvertReturned /\ stack = <<>>
    /\ call.ext.minLon = 190 /\ call.ext.maxLon = 550
    /\ Len(Flatten(ret.value)) = 3

(***************************************************************************)
(* C4 as stated: createExtentFilter clamps each bound into its valid       *)
(* range: for both discriminators every longitude of the returned filter   *)
(* lies in [-180,180] and every latitude in [-90,90].                      *)
(***************************************************************************)
InLatRange(lat) == -90 <= lat /\ lat <= 90

C4_AsStated ==
    Returned("createExtentFilter") =>
      IF ret.value.t = "geo_bounding_box"
      THEN /\ InLonRange(ret.value.top_left.lon)
           /\ InLonRange(ret.value.bottom_right.lon)
           /\ InLatRange(ret.value.top_left.lat)
           /\ InLatRange(ret.value.bottom_right.lat)
      ELSE /\ InLonRange(ret.value.shape.coordinates[1][1])
           /\ InLonRange(ret.value.shape.coordinates[2][1])
           /\ InLatRange(ret.value.shape.coordinates[1][2])
           /\ InLatRange(ret.value.shape.coordinates[2][2])

(***************************************************************************)
(* Vocabulary of the properties of hitsToGeoJson.                          *)
(***************************************************************************)
SupportedFieldTypes == {"geo_point", "geo_shape"}

\* the own keys of a value; a value that is no object has none
KeySet(object) ==
    IF IsObject(object) THEN {object.props[i].k : i \in 1..Len(object.props)}
    ELSE {}

\* the hit's _source holds a value at the field's path
HasGeoField(hit, geoFieldName) ==
    LET source == Get(hit, "_source") IN
      IF geoFieldName = "location" THEN "location" \in KeySet(source)
      ELSE /\ "geo" \in KeySet(source)
           /\ IsObject(Get(source, "geo"))
           /\ "point" \in KeySet(Get(source, "geo"))

\* the value at the field's path
GeoFieldValue(hit, geoFieldName) ==
    LET source == Get(hit, "_source") IN
      IF geoFieldName = "location" THEN Get(source, "location")
      ELSE Get(Get(source, "geo"), "point")

\* positions of the hits of the call that have the geo field, in order
RECURSIVE PositionsWithField(_)
PositionsWithField(i) ==
    IF i > Len(call.hits) THEN <<>>
    ELSE (IF HasGeoField(call.hits[i], call.geoFieldName) THEN <<i>> ELSE <<>>)
           \o PositionsWithField(i + 1)

WithField == PositionsWithField(1)

\* the features of the returned collection, in order
Features ==
    LET array == Get(ret.value, "features") IN
      [i \in 1..Len(array.props) |-> array.props[i].v]

(***************************************************************************)
(* C5: hitsToGeoJson preserves input ordering and drops exactly the hits   *)
(* missing the geo field: with a supported discriminator the features of   *)
(* the returned collection are, one for one and in the same order, the     *)
(* features of the hits whose _source has the geo field, and a call that   *)
(* fails fails on the conversion of a hit that has the field.              *)
(***************************************************************************)
C5_OrderKeptMissingDropped ==
    (call.fn = "hitsToGeoJson" /\ call.geoFieldType \in SupportedFieldTypes) =>
      /\ ret.kind = "return" =>
           /\ Get(ret.value, "type") = Str("FeatureCollection")
           /\ Len(Features) = Len(WithField)
           /\ \A i \in 1..Len(WithField) :
                LET hit == call.hits[WithField[i]] IN
                  /\ Get(Features[i], "type") = Str("Feature")
                  /\ Return(Get(Features[i], "geometry")) =
                       Geometry(GeoFieldValue(hit, call.geoFieldName),
                                call.geoFieldType)
                  /\ Get(Features[i], "properties") =
                       Properties(hit, call.geoFieldName)
      /\ ret.kind = "throw" =>
           \E i \in 1..Len(WithField) :
             ret = Geometry(GeoFieldValue(call.hits[WithField[i]],
                                          call.geoFieldName),
                            call.geoFieldType)

\* three hits, the second without the geo field: two features, in order
C5_Witness ==
    /\ Returned("hitsToGeoJson")
    /\ call.geoFieldType = "geo_point" /\ call.geoFieldName = "location"
    /\ Len(call.hits) = 3
    /\ WithField = <<1, 3>>
    /\ Len(Features) = 2
    /\ Get(Get(Features[1], "properties"), "name") = Str("a")
    /\ Get(Get(Features[2], "properties"), "name") = Str("z")

(***************************************************************************)
(* C6 as stated: hitsToGeoJson called with a discriminator other than      *)
(* geo_point or geo_shape fails with an "unsupported field type" error for *)
(* every sequence of hits, the empty one and one in which no hit has the   *)
(* geo field included; it never returns a FeatureCollection.               *)
(***************************************************************************)
C6_AsStated ==
    (call.fn = "hitsToGeoJson" /\ call.geoFieldType \notin SupportedFieldTypes) =>
      ret = Throw(UnsupportedFieldType(call.geoFieldType))

(***************************************************************************)
(* C7: geoPointToGeometry is encoding-independent: for every (lat, lon)    *)
(* the text "lat,lon", the pair [lon, lat] and the record {lat, lon} all   *)
(* convert to the same Point geometry, with coordinates [lon, lat].        *)
(***************************************************************************)
C7_EncodingIndependent ==
    call.fn = "geoPointToGeometry" =>
      \A lat \in PointCoords, lon \in PointCoords :
        call.value \in {PointText(lat, lon), PointPair(lat, lon),
                        PointRecord(lat, lon)}
          => /\ ret.kind = "return"
             /\ Get(ret.value, "type") = Str("Point")
             /\ Get(ret.value, "coordinates") = Arr(<<lon, lat>>)

\* the text "-71.34,0.05" was converted to the point [0.05, -71.34]
C7_Witness ==
    /\ Returned("geoPointToGeometry")
    /\ call.value = Text(<<"-", "7", "1", ".", "3", "4", ",", "0", ".", "0", "5">>)
    /\ call.value = PointText(Dec(-7134, 2), Dec(5, 2))
    /\ Get(ret.value, "coordinates") = Arr(<<Dec(5, 2), Dec(-7134, 2)>>)

(***************************************************************************)
(* C8: geoShapeToGeometry rejects exactly the unsupported shapes: it fails *)
(* for every text and for every record tagged "envelope" or "circle"; for  *)
(* a record with any other tag it returns the record with the tag          *)
(* translated through the six-entry table (unchanged when absent from it), *)
(* the rest equal to the input, and leaves the caller's record unmodified. *)
(***************************************************************************)
StandardTag(type) ==
    IF type = Str("point") THEN Str("Point")
    ELSE IF type = Str("linestring") THEN Str("LineString")
    ELSE IF type = Str("polygon") THEN Str("Polygon")
    ELSE IF type = Str("multipoint") THEN Str("MultiPoint")
    ELSE IF type = Str("multilinestring") THEN Str("MultiLineString")
    ELSE IF type = Str("geometrycollection") THEN Str("GeometryCollection")
    ELSE type

\* the caller's record as it was when the call was made
ShapeInput == Deref(call.heap, call.value)

C8_RejectsExactlyUnsupported ==
    call.fn = "geoShapeToGeometry" =>
      /\ IsString(ShapeInput) => ret.kind = "throw"
      /\ ShapeInput.t = "object" =>
           LET type == Get(ShapeInput, "type") IN
             IF type \in {Str("envelope"), Str("circle")}
             THEN ret.kind = "throw"
             ELSE /\ ret.kind = "return"
                  /\ Deref(heap, ret.value) =
                       (IF HasOwn(ShapeInput, "type")
                        THEN Set(ShapeInput, "type", StandardTag(type))
                        ELSE ShapeInput)
                  /\ Deref(heap, call.value) = ShapeInput
                  /\ \A addr \in 1..Len(call.heap) : heap[addr] = call.heap[addr]

\* a lowercase polygon came back as "Polygon"; the caller's says "polygon"
C8_Witness ==
    /\ Returned("geoShapeToGeometry")
    /\ ShapeInput = Polygon
    /\ Get(Deref(heap, ret.value), "type") = Str("Polygon")
    /\ Get(Deref(heap, call.value), "type") = Str("polygon")

(***************************************************************************)
(* C10 as stated: each feature's properties have the key set (keys of      *)
(* hit._source minus the geo field name) union (keys of hit.fields); the   *)
(* geo field name is never a property key; a key of hit.fields takes the   *)
(* hit.fields value, unwrapped when it is a single-element sequence, even  *)
(* when _source has the key; every other key takes its _source value.      *)
(***************************************************************************)
\* the own keys of hit._source or hit.fields, which may be missing
KeysOf(hit, name) == KeySet(Get(hit, name))

Unwrapped(val) ==
    IF val.t = "array" /\ Len(val.props) = 1 THEN val.props[1].v ELSE val

PropertiesAssembled(hit, properties) ==
    /\ KeySet(properties) =
         (KeysOf(hit, "_source") \ {call.geoFieldName}) \cup KeysOf(hit, "fields")
    /\ \A key \in KeySet(properties) :
         Get(properties, key) =
           (IF key \in KeysOf(hit, "fields")
            THEN Unwrapped(Get(Get(hit, "fields"), key))
            ELSE Get(Get(hit, "_source"), key))

C10_AsStated ==
    Returned("hitsToGeoJson") =>
      \A i \in 1..Len(Features) :
        /\ PropertiesAssembled(call.hits[WithField[i]],
                               Get(Features[i], "properties"))
        /\ call.geoFieldName \notin KeySet(Get(Features[i], "properties"))

(***************************************************************************)
(* C10 amended: as stated, except that the geo field name is a property    *)
(* key exactly when it is a key of hit.fields (it is never copied from     *)
(* _source, and then holds the hit.fields value).                          *)
(***************************************************************************)
C10_PropertiesAssembled ==
    Returned("hitsToGeoJson") =>
      /\ Len(Features) = Len(WithField)
      /\ \A i \in 1..Len(Features) :
           LET hit == call.hits[WithField[i]]
               properties == Get(Features[i], "properties")
           IN /\ PropertiesAssembled(hit, properties)
              /\ call.geoFieldName \in KeySet(properties)
                   <=> call.geoFieldName \in KeysOf(hit, "fields")

\* a computed field shadows a source field, one has two elements, and the
\* geo field itself is not among the properties
C10_Witness ==
    /\ Returned("hitsToGeoJson")
    /\ call.geoFieldName = "geo.point"
    /\ Len(Features) = 1
    /\ LET hit == call.hits[WithField[1]]
           properties == Get(Features[1], "properties")
       IN /\ KeySet(properties) = {"geo", "name", "geo.point"}
          /\ Get(properties, "geo.point") = Num(2)

====
